---- MODULE Spec2Model ----
(***************************************************************************)
(* Model of package lanes, profile.go: the Profile object, the permission  *)
(* checks on the profile directory and file, loading and validating a      *)
(* profile, tagging fetched servers with SSH profiles, and writing a       *)
(* profile to disk.                                                        *)
(*                                                                         *)
(* The filesystem is the two paths the code touches: the config directory  *)
(* (CONFIG_DIR) and one profile file inside it (CONFIG_DIR/<name>.yml).    *)
(* An entry has a kind ("none" when the process cannot see the path: it    *)
(* does not exist, or its directory cannot be searched), the nine          *)
(* permission bits of its mode and, for the profile path, its bytes.       *)
(* The calling user owns both entries and is not privileged, so the        *)
(* operating system grants it what the owner bits grant.                   *)
(***************************************************************************)
EXTENDS Integers, Sequences, FiniteSets, TLC

VARIABLES
  umask,        \* the process's file mode creation mask
  dir,          \* the entry at CONFIG_DIR
  file,         \* the entry at CONFIG_DIR/<name>.yml
  prof,         \* the *Profile the methods are called on
  config,       \* the package-level global configuration (*Config, may be nil)
  lanesRegion,  \* the value of the LANES_REGION environment variable
  ret,          \* what the most recent call returned
  out,          \* what the most recent call printed to stdout
  running,      \* FALSE once os.Exit(1) has been called
  written       \* TRUE while the directory and the file are both as the most
                \* recent successful Write created them

vars == <<umask, dir, file, prof, config, lanesRegion, ret, out, running, written>>

\* A nil error. An error is the non-empty sequence of its messages, each a
\* record [msg, path] (path <<>> when the message names no path).
Nil == <<>>

Err(msg, path) == <<[msg |-> msg, path |-> path]>>

\* fmt.Errorf(prefix + ": %s", err)
Wrap(prefix, err) == Err(prefix, <<>>) \o err

(***************************************************************************)
(* Paths                                                                   *)
(***************************************************************************)
\* A path is the sequence of its elements.
CONFIG_DIR == <<"CONFIG_DIR">>

ProfileName == "demo"

\* filepath.Join(CONFIG_DIR, name+".yml"), without the permission check that
\* GetProfilePath runs first when checkPerms is set (see LoadProfile)
GetProfilePath(name) == CONFIG_DIR \o <<name, ".yml">>

\* filepath.Dir of a profile path
Dir(path) == <<path[1]>>

Entry(path) == IF path = CONFIG_DIR THEN dir ELSE file

\* os.Stat: succeeds exactly on a path the process can see
Stat(path) ==
  LET e == Entry(path) IN
  IF e.kind = "none"
    THEN [err |-> Err("stat: no such file or directory", path), mode |-> 0]
    ELSE [err |-> Nil, mode |-> e.mode]

(***************************************************************************)
(* Permission bits                                                         *)
(***************************************************************************)
AllModes == 0 .. \o777

\* (mode & 0700) >> 6
UserBits(mode) == (mode \div \o100) % 8

\* (mode & 0070) >> 3
GroupBits(mode) == (mode \div \o10) % 8

\* mode & 0007
WorldBits(mode) == mode % 8

\* What the owner bits grant the calling user.
OwnerCanRead(mode) == (mode \div \o400) % 2 = 1

OwnerCanWrite(mode) == (mode \div \o200) % 2 = 1

OwnerCanSearch(mode) == (mode \div \o100) % 2 = 1

\* multierror.Append(err, errs...): a nil err starts a new list
MultiAppend(err, errs) == err \o errs

(***************************************************************************)
(* CheckPermissions                                                        *)
(***************************************************************************)
\* a plausible slip: every owner value short of rwx is fatal
CheckModeStrict(path, mode) ==
  LET r1 == IF UserBits(mode) <= 6
              THEN MultiAppend(Nil, Err("is not user-accessible", path))
              ELSE Nil
      r2 == IF GroupBits(mode) # 0
              THEN MultiAppend(r1, Err("is group-accessible", path))
              ELSE r1
      r3 == IF WorldBits(mode) # 0
              THEN MultiAppend(r2, Err("is world-accessible", path))
              ELSE r2
  IN [fatal |-> UserBits(mode) <= 6, result |-> r3]

\* a plausible slip: the world check is left out
CheckModeNoWorld(path, mode) ==
  LET r1 == IF UserBits(mode) <= 3
              THEN MultiAppend(Nil, Err("is not user-accessible", path))
              ELSE Nil
      r2 == IF GroupBits(mode) # 0
              THEN MultiAppend(r1, Err("is group-accessible", path))
              ELSE r1
  IN [fatal |-> UserBits(mode) <= 3, result |-> r2]

\* the else branch of CheckPermissions: the three checks of the mode
CheckMode(path, mode) ==
  LET r1 == IF UserBits(mode) <= 3
              THEN MultiAppend(Nil, Err("is not user-accessible", path))
              ELSE Nil
      r2 == IF GroupBits(mode) # 0
              THEN MultiAppend(r1, Err("is group-accessible", path))
              ELSE r1
      r3 == IF WorldBits(mode) # 0
              THEN MultiAppend(r2, Err("is world-accessible", path))
              ELSE r2
  IN [fatal |-> UserBits(mode) <= 3, result |-> r3]

CheckPermissions(path) ==
  LET st == Stat(path) IN
  IF st.err # Nil
    THEN [fatal |-> TRUE, result |-> MultiAppend(Nil, st.err)]
    ELSE CheckMode(path, st.mode)

(***************************************************************************)
(* CheckProfilePermissions                                                 *)
(***************************************************************************)
\* a plausible slip: only the profile file's check decides the exit
CheckProfilePermissionsFileOnly(path) ==
  LET d == CheckPermissions(Dir(path))
      p == CheckPermissions(path)
      result1 == IF d.result # Nil THEN MultiAppend(d.result, <<>>) ELSE Nil
      result2 == IF p.result # Nil THEN MultiAppend(p.result, <<>>) ELSE result1
      fatal == p.fatal
      prefix == IF fatal THEN "ERROR" ELSE "WARNING"
  IN [fatal |-> fatal,
      printed |-> IF result2 # Nil
                    THEN <<[prefix |-> prefix, text |-> "checking profile permissions", errs |-> result2]>>
                    ELSE <<>>]

\* result is assigned, not accumulated: multierror.Append(dErr), then
\* multierror.Append(pErr)
CheckProfilePermissions(path) ==
  LET d == CheckPermissions(Dir(path))
      p == CheckPermissions(path)
      result1 == IF d.result # Nil THEN MultiAppend(d.result, <<>>) ELSE Nil
      result2 == IF p.result # Nil THEN MultiAppend(p.result, <<>>) ELSE result1
      fatal == d.fatal \/ p.fatal
      prefix == IF fatal THEN "ERROR" ELSE "WARNING"
  IN [fatal |-> fatal,
      printed |-> IF result2 # Nil
                    THEN <<[prefix |-> prefix, text |-> "checking profile permissions", errs |-> result2]>>
                    ELSE <<>>]

(***************************************************************************)
(* Profile, global configuration, YAML                                     *)
(***************************************************************************)
\* A *Config: isNil marks the nil pointer.
NilConfig == [isNil |-> TRUE, Region |-> ""]

Config(region) == [isNil |-> FALSE, Region |-> region]

\* A *ssh.Profile: isNil marks the nil pointer.
NilSSH == [isNil |-> TRUE, Identity |-> "", Tunnel |-> "", Tunnels |-> <<>>]

SSHProfile(identity, tunnel, tunnels) ==
  [isNil |-> FALSE, Identity |-> identity, Tunnel |-> tunnel, Tunnels |-> tunnels]

\* ssh.Config.Mods of GetSampleProfile: lane name -> *ssh.Profile
SampleMods ==
  [lane \in {"dev", "stage", "prod"} |->
     CASE lane = "dev" ->
            SSHProfile("~/.ssh/id_rsa_dev", "", <<"8080:127.0.0.1:80", "3306:127.0.0.1:3306">>)
       [] lane = "stage" ->
            SSHProfile("~/.ssh/id_rsa_stage", "8080:127.0.0.1:80", <<>>)
       [] lane = "prod" ->
            SSHProfile("~/.ssh/id_rsa_prod", "", <<>>)]

\* The Profile struct.
Profile(accessKey, secretKey, region, mods, global, overwrite) ==
  [AWSAccessKeyId |-> accessKey, AWSSecretAccessKey |-> secretKey, Region |-> region,
   SSH |-> [Mods |-> mods], global |-> global, overwrite |-> overwrite]

\* GetSampleProfile: only the SSH section is filled in.
GetSampleProfile == Profile("", "", "", SampleMods, NilConfig, FALSE)

\* The YAML keys of the exported scalar fields.
ScalarKeys == {"aws_access_key_id", "aws_secret_access_key", "region"}

\* Bytes that are not YAML.
BadBytes == [syntax |-> "bad", scalars |-> <<>>, ssh |-> <<>>]

\* WriteBytes: yaml.Marshal of the profile. The two credential keys are always
\* written, region is omitted when empty (omitempty), the unexported fields
\* global and overwrite are never written.
WriteBytes(this) ==
  [syntax |-> "ok",
   scalars |->
     [k \in {"aws_access_key_id", "aws_secret_access_key"}
            \cup (IF this.Region # "" THEN {"region"} ELSE {}) |->
        CASE k = "aws_access_key_id" -> this.AWSAccessKeyId
          [] k = "aws_secret_access_key" -> this.AWSSecretAccessKey
          [] k = "region" -> this.Region],
   ssh |-> this.SSH.Mods]

\* yaml.Unmarshal into new(Profile): a key that is absent leaves the zero value.
Unmarshal(in) ==
  LET get(k) == IF k \in DOMAIN in.scalars THEN in.scalars[k] ELSE "" IN
  IF in.syntax # "ok"
    THEN [err |-> Err("yaml: cannot unmarshal", <<>>),
          prof |-> Profile("", "", "", <<>>, NilConfig, FALSE)]
    ELSE [err |-> Nil,
          prof |-> Profile(get("aws_access_key_id"), get("aws_secret_access_key"),
                           get("region"), in.ssh, NilConfig, FALSE)]

ErrMissingAccessKey == Err("ErrMissingAccessKey", <<>>)

ErrMissingSecretKey == Err("ErrMissingSecretKey", <<>>)

(***************************************************************************)
(* Validate, LoadProfileBytes                                              *)
(***************************************************************************)
\* a plausible slip: the secret key is not checked
ValidateNoSecret(this, env) ==
  IF this.AWSAccessKeyId = ""
    THEN [err |-> ErrMissingAccessKey, this |-> this]
    ELSE [err |-> Nil, this |-> this]

\* Validate: env is the value of os.Getenv("LANES_REGION"). Returns the error
\* and the receiver as the call leaves it.
Validate(this, env) ==
  IF this.AWSAccessKeyId = ""
    THEN [err |-> ErrMissingAccessKey, this |-> this]
  ELSE IF this.AWSSecretAccessKey = ""
    THEN [err |-> ErrMissingSecretKey, this |-> this]
  ELSE IF ~this.global.isNil
    THEN [err |-> Nil,
          this |-> IF this.Region = ""
                     THEN [this EXCEPT !.Region = this.global.Region]
                     ELSE this]
  ELSE [err |-> Nil, this |-> [this EXCEPT !.Region = env]]

\* LoadProfileBytes: cfg is the package-level config, env the LANES_REGION value.
LoadProfileBytes(in, cfg, env) ==
  LET u == Unmarshal(in)
      withGlobal == [u.prof EXCEPT !.global = cfg]
      v == Validate(withGlobal, env)
  IN IF u.err # Nil
       THEN [prof |-> u.prof, err |-> Wrap("unable to parse lane profile", u.err)]
     ELSE IF v.err # Nil
       THEN [prof |-> v.this, err |-> Wrap("invalid profile", v.err)]
     ELSE [prof |-> v.this, err |-> Nil]

(***************************************************************************)
(* FetchServersBy                                                          *)
(***************************************************************************)
\* A *Server: the instance id, its lane tag and the attached SSH profile.
Server(id, lane, profile) == [id |-> id, Lane |-> lane, profile |-> profile]

\* a plausible slip: servers of an unknown lane are dropped from the result
FetchServersByDropping(this, fetched) ==
  IF fetched.err # Nil
    THEN [servers |-> fetched.servers, err |-> fetched.err, out |-> <<>>]
    ELSE LET known == SelectSeq(fetched.servers, LAMBDA svr : svr.Lane \in DOMAIN this.SSH.Mods)
         IN [servers |-> [i \in DOMAIN known |->
                            [known[i] EXCEPT !.profile = this.SSH.Mods[known[i].Lane]]],
             err |-> Nil,
             out |-> <<>>]

\* Profile.FetchServersBy: fetched is what the package-level FetchServersBy
\* returned, [servers, err]. The loop assigns every server's profile from the
\* lane map (the zero value, nil, when the lane has no entry) and prints one
\* warning per server without an entry.
FetchServersBy(this, fetched) ==
  IF fetched.err # Nil
    THEN [servers |-> fetched.servers, err |-> fetched.err, out |-> <<>>]
    ELSE LET lookup(svr) == IF svr.Lane \in DOMAIN this.SSH.Mods
                              THEN this.SSH.Mods[svr.Lane]
                              ELSE NilSSH
             missing == SelectSeq(fetched.servers, LAMBDA svr : svr.Lane \notin DOMAIN this.SSH.Mods)
         IN [servers |-> [i \in DOMAIN fetched.servers |->
                            [fetched.servers[i] EXCEPT !.profile = lookup(fetched.servers[i])]],
             err |-> Nil,
             out |-> [i \in DOMAIN missing |->
                        [text |-> "WARNING: no profile found", server |-> missing[i].id,
                         lane |-> missing[i].Lane]]]

(***************************************************************************)
(* SetOverwrite, Write, WriteFile                                          *)
(***************************************************************************)
SetOverwrite(this, value) == [this EXCEPT !.overwrite = value]

\* perm &^ mask: the permission bits a newly created entry gets
RECURSIVE AndNot(_, _)
AndNot(perm, mask) ==
  IF perm = 0
    THEN 0
    ELSE (IF perm % 2 = 1 /\ mask % 2 = 0 THEN 1 ELSE 0)
           + 2 * AndNot(perm \div 2, mask \div 2)

\* the mode WriteFile asks for the directory
DirPerm == \o700

\* the mode WriteFile asks for the profile file
FilePerm == \o600

\* os.MkdirAll(path, perm) on the config directory: nothing to do when it is
\* already a directory, an error when the path is taken by a file, otherwise
\* created with perm less the umask.
MkdirAll(path, perm) ==
  CASE dir.kind = "dir" -> [err |-> Nil, dir |-> dir, made |-> FALSE]
    [] dir.kind = "file" -> [err |-> Err("mkdir: not a directory", path), dir |-> dir, made |-> FALSE]
    [] dir.kind = "none" -> [err |-> Nil,
                             dir |-> [kind |-> "dir", mode |-> AndNot(perm, umask)],
                             made |-> TRUE]

\* ioutil.WriteFile(dest, data, perm) once the directory is d: open with
\* O_WRONLY|O_CREATE|O_TRUNC. An existing file must be writable, is truncated
\* and rewritten and keeps its mode; perm (less the umask) is used only when
\* the file is created, which needs write and search permission on d.
IoutilWriteFile(dest, data, perm, d) ==
  CASE file.kind = "file" /\ OwnerCanWrite(file.mode) ->
         [err |-> Nil, file |-> [file EXCEPT !.data = data], made |-> FALSE]
    [] file.kind = "file" /\ ~OwnerCanWrite(file.mode) ->
         [err |-> Err("open: permission denied", dest), file |-> file, made |-> FALSE]
    [] file.kind = "dir" ->
         [err |-> Err("open: is a directory", dest), file |-> file, made |-> FALSE]
    [] file.kind = "none" /\ OwnerCanWrite(d.mode) /\ OwnerCanSearch(d.mode) ->
         [err |-> Nil,
          file |-> [kind |-> "file", mode |-> AndNot(perm, umask), data |-> data],
          made |-> TRUE]
    [] file.kind = "none" /\ ~(OwnerCanWrite(d.mode) /\ OwnerCanSearch(d.mode)) ->
         [err |-> Err("open: permission denied", dest), file |-> file, made |-> FALSE]

ErrExists(name) == Err("profile already exists", <<name>>)

\* a plausible slip: the overwrite flag is not consulted
WriteFileAlways(this, name, dest) ==
  LET md == MkdirAll(Dir(dest), DirPerm)
      wf == IoutilWriteFile(dest, WriteBytes(this), FilePerm, md.dir)
  IN IF md.err # Nil
       THEN [err |-> md.err, dir |-> dir, file |-> file, out |-> <<>>,
             madeDir |-> FALSE, madeFile |-> FALSE]
     ELSE IF wf.err # Nil
       THEN [err |-> wf.err, dir |-> md.dir, file |-> file, out |-> <<>>,
             madeDir |-> md.made, madeFile |-> FALSE]
     ELSE [err |-> Nil, dir |-> md.dir, file |-> wf.file,
           out |-> <<[text |-> "Profile written", name |-> name, dest |-> dest]>>,
           madeDir |-> md.made, madeFile |-> wf.made]

\* WriteFile: returns the error, the directory and file as the call leaves
\* them, what it printed, and whether it created the directory and the file.
WriteFile(this, name, dest) ==
  LET st == Stat(dest)
      md == MkdirAll(Dir(dest), DirPerm)
      wf == IoutilWriteFile(dest, WriteBytes(this), FilePerm, md.dir)
  IN IF st.err = Nil /\ ~this.overwrite
       THEN [err |-> ErrExists(name), dir |-> dir, file |-> file, out |-> <<>>,
             madeDir |-> FALSE, madeFile |-> FALSE]
     ELSE IF md.err # Nil
       THEN [err |-> md.err, dir |-> dir, file |-> file, out |-> <<>>,
             madeDir |-> FALSE, madeFile |-> FALSE]
     ELSE IF wf.err # Nil
       THEN [err |-> wf.err, dir |-> md.dir, file |-> file, out |-> <<>>,
             madeDir |-> md.made, madeFile |-> FALSE]
     ELSE [err |-> Nil, dir |-> md.dir, file |-> wf.file,
           out |-> <<[text |-> "Profile written", name |-> name, dest |-> dest]>>,
           madeDir |-> md.made, madeFile |-> wf.made]

\* Write: WriteFile to the profile's path, no permission check
Write(this, name) == WriteFile(this, name, GetProfilePath(name))

(***************************************************************************)
(* LoadProfile                                                             *)
(***************************************************************************)
\* ioutil.ReadFile: the bytes of a regular file the user may read
ReadFile(path) ==
  LET e == Entry(path) IN
  CASE e.kind = "file" /\ OwnerCanRead(e.mode) -> [err |-> Nil, data |-> e.data]
    [] e.kind = "file" /\ ~OwnerCanRead(e.mode) ->
         [err |-> Err("open: permission denied", path), data |-> BadBytes]
    [] e.kind = "dir" -> [err |-> Err("read: is a directory", path), data |-> BadBytes]
    [] e.kind = "none" -> [err |-> Err("open: no such file or directory", path), data |-> BadBytes]

\* LoadProfile: GetProfilePath(name, true) runs CheckProfilePermissions, which
\* may end the process; then the file is read, then parsed and validated.
\* trace lists the steps the call took, in order.
LoadProfile(name, cfg, env) ==
  LET path == GetProfilePath(name)
      chk == CheckProfilePermissions(path)
      rd == ReadFile(path)
      lp == LoadProfileBytes(rd.data, cfg, env)
  IN IF chk.fatal
       THEN [exit |-> TRUE, out |-> chk.printed, hasProf |-> FALSE, prof |-> GetSampleProfile,
             err |-> Nil, trace |-> <<"check", "exit">>]
     ELSE IF rd.err # Nil
       THEN [exit |-> FALSE, out |-> chk.printed, hasProf |-> FALSE, prof |-> GetSampleProfile,
             err |-> Wrap("unable to read profile", rd.err), trace |-> <<"check", "read">>]
     ELSE [exit |-> FALSE, out |-> chk.printed, hasProf |-> TRUE, prof |-> lp.prof,
           err |-> lp.err, trace |-> <<"check", "read", "parse">>]

(***************************************************************************)
(* Inputs and initial states                                               *)
(***************************************************************************)
\* The longest server list a fetch returns in the model.
MaxServers == 2

\* The umasks the process may run under.
Umasks == {\o022, \o077, \o400}

\* Representative modes of a pre-existing directory or profile file.
FsModes == {\o000, \o300, \o400, \o500, \o600, \o640, \o644, \o700, \o750, \o755}

AccessKeys == {"", "AKIAEXAMPLE"}

SecretKeys == {"", "wJalrEXAMPLEKEY"}

Regions == {"", "us-east-1"}

\* The package-level config: not loaded (nil), loaded without or with a region.
Configs == {NilConfig, Config(""), Config("eu-west-1")}

\* Values of the LANES_REGION environment variable ("" when unset).
EnvRegions == {"", "ap-south-1"}

NoDir == [kind |-> "none", mode |-> 0]

NoFile == [kind |-> "none", mode |-> 0, data |-> BadBytes]

\* What may be at CONFIG_DIR: nothing, a regular file, or a directory.
DirEntries(modes) ==
  {NoDir, [kind |-> "file", mode |-> \o600]}
    \cup {[kind |-> "dir", mode |-> m] : m \in modes}

\* What may be at the profile path: nothing, a directory, or a regular file.
FileEntries(modes, datas) ==
  {NoFile, [kind |-> "dir", mode |-> \o700, data |-> BadBytes]}
    \cup {[kind |-> "file", mode |-> m, data |-> d] : m \in modes, d \in datas}

\* The profile path is visible only inside a directory the user can search.
WellFormed == file.kind # "none" => (dir.kind = "dir" /\ OwnerCanSearch(dir.mode))

\* A profile as a caller builds it before writing it: the sample SSH section
\* plus credentials, no global configuration attached, overwrite unset.
NewProfiles ==
  {Profile(a, k, "", SampleMods, NilConfig, FALSE) : a \in AccessKeys, k \in SecretKeys}

\* Profile files found on disk: not YAML, or a profile written earlier.
StoredBytes == {BadBytes} \cup {WriteBytes(p) : p \in NewProfiles}

\* YAML input of LoadProfileBytes: not YAML, or any choice of the scalar keys.
InputBytes ==
  {BadBytes}
    \cup {[syntax |-> "ok", scalars |-> f, ssh |-> SampleMods] :
            f \in UNION {[D -> {"", "x"}] : D \in SUBSET ScalarKeys}}

\* Lane maps of a profile: each of two lanes absent, present with a nil entry,
\* or present with SSH settings.
LaneMaps ==
  UNION {[D -> {NilSSH, SampleMods["dev"], SampleMods["prod"]}] : D \in SUBSET {"dev", "prod"}}

\* What the package-level FetchServersBy may return: a list of servers (the
\* i-th with instance id i, any lane tag, and whatever profile field it
\* carried) and no error, or an error.
FetchOutcomes ==
  {[servers |-> l, err |-> Nil] :
     l \in UNION {{[i \in 1 .. n |-> Server(i, c[i][1], c[i][2])] :
                     c \in [1 .. n -> {"dev", "prod", "qa"} \X {NilSSH, SampleMods["stage"]}]} :
                  n \in 0 .. MaxServers}}
    \cup {[servers |-> <<>>, err |-> Err("DescribeInstances failed", <<>>)],
          [servers |-> <<Server(1, "dev", NilSSH)>>, err |-> Err("DescribeInstances failed", <<>>)]}

NoCall == [op |-> "none"]

(***************************************************************************)
(* Actions: one call of an operation                                       *)
(***************************************************************************)
CallCheckPermissions(path) ==
  /\ running
  /\ LET r == CheckPermissions(path) IN
       ret' = [op |-> "CheckPermissions", path |-> path, fatal |-> r.fatal, result |-> r.result]
  /\ out' = <<>>
  /\ UNCHANGED <<umask, dir, file, prof, config, lanesRegion, running, written>>

\* os.Exit(1) on a fatal finding: the process stops
CallCheckProfilePermissions(path) ==
  /\ running
  /\ LET r == CheckProfilePermissions(path) IN
       /\ out' = r.printed
       /\ running' = ~r.fatal
  /\ ret' = [op |-> "CheckProfilePermissions", path |-> path]
  /\ UNCHANGED <<umask, dir, file, prof, config, lanesRegion, written>>

CallValidate ==
  /\ running
  /\ LET r == Validate(prof, lanesRegion) IN
       /\ prof' = r.this
       /\ ret' = [op |-> "Validate", this |-> prof, err |-> r.err]
  /\ out' = <<>>
  /\ UNCHANGED <<umask, dir, file, config, lanesRegion, running, written>>

CallLoadProfileBytes(in) ==
  /\ running
  /\ LET r == LoadProfileBytes(in, config, lanesRegion) IN
       ret' = [op |-> "LoadProfileBytes", in |-> in, prof |-> r.prof, err |-> r.err]
  /\ out' = <<>>
  /\ UNCHANGED <<umask, dir, file, prof, config, lanesRegion, running, written>>

CallFetchServersBy(fetched) ==
  /\ running
  /\ LET r == FetchServersBy(prof, fetched) IN
       /\ ret' = [op |-> "FetchServersBy", fetched |-> fetched, servers |-> r.servers, err |-> r.err]
       /\ out' = r.out
  /\ UNCHANGED <<umask, dir, file, prof, config, lanesRegion, running, written>>

CallSetOverwrite(value) ==
  /\ running
  /\ prof' = SetOverwrite(prof, value)
  /\ ret' = [op |-> "SetOverwrite", value |-> value]
  /\ out' = <<>>
  /\ UNCHANGED <<umask, dir, file, config, lanesRegion, running, written>>

CallWrite(name) ==
  /\ running
  /\ LET r == Write(prof, name) IN
       /\ dir' = r.dir
       /\ file' = r.file
       /\ out' = r.out
       /\ ret' = [op |-> "Write", err |-> r.err, madeDir |-> r.madeDir, madeFile |-> r.madeFile]
       /\ written' = IF r.err = Nil
                       THEN r.madeDir /\ r.madeFile
                       ELSE written /\ r.dir = dir /\ r.file = file
  /\ UNCHANGED <<umask, prof, config, lanesRegion, running>>

CallLoadProfile(name) ==
  /\ running
  /\ LET r == LoadProfile(name, config, lanesRegion) IN
       /\ running' = ~r.exit
       /\ out' = r.out
       /\ ret' = [op |-> "LoadProfile", err |-> r.err, hasProf |-> r.hasProf, prof |-> r.prof,
                  trace |-> r.trace]
  /\ UNCHANGED <<umask, dir, file, prof, config, lanesRegion, written>>

(***************************************************************************)
(* Spec: a process that writes and loads a profile on an arbitrary         *)
(* pre-existing filesystem                                                 *)
(***************************************************************************)
Init ==
  /\ umask \in Umasks
  /\ dir \in DirEntries(FsModes)
  /\ file \in FileEntries(FsModes, StoredBytes)
  /\ WellFormed
  /\ prof \in NewProfiles
  /\ config \in {NilConfig, Config("eu-west-1")}
  /\ lanesRegion = "ap-south-1"
  /\ ret = NoCall
  /\ out = <<>>
  /\ running = TRUE
  /\ written = FALSE

Next ==
  \/ \E value \in BOOLEAN : CallSetOverwrite(value)
  \/ CallWrite(ProfileName)
  \/ CallLoadProfile(ProfileName)

Spec == Init /\ [][Next]_vars

(***************************************************************************)
(* SpecPerm: the permission checks over every mode of the profile file     *)
(***************************************************************************)
InitPerm ==
  /\ umask = \o022
  /\ dir \in DirEntries(FsModes)
  /\ file \in FileEntries(AllModes, {BadBytes})
  /\ WellFormed
  /\ prof = GetSampleProfile
  /\ config = NilConfig
  /\ lanesRegion = ""
  /\ ret = NoCall
  /\ out = <<>>
  /\ running = TRUE
  /\ written = FALSE

NextPerm ==
  \/ CallCheckPermissions(CONFIG_DIR)
  \/ CallCheckPermissions(GetProfilePath(ProfileName))
  \/ CallCheckProfilePermissions(GetProfilePath(ProfileName))

SpecPerm == InitPerm /\ [][NextPerm]_vars

(***************************************************************************)
(* SpecValidate: Validate and LoadProfileBytes over every combination of   *)
(* credentials, profile region, global configuration and environment       *)
(***************************************************************************)
InitValidate ==
  /\ umask = \o022
  /\ dir = NoDir
  /\ file = NoFile
  /\ config \in Configs
  /\ prof \in {Profile(a, k, r, SampleMods, g, FALSE) :
                 a \in AccessKeys, k \in SecretKeys, r \in Regions, g \in {NilConfig, config}}
  /\ lanesRegion \in EnvRegions
  /\ ret = NoCall
  /\ out = <<>>
  /\ running = TRUE
  /\ written = FALSE

NextValidate ==
  \/ CallValidate
  \/ \E in \in InputBytes : CallLoadProfileBytes(in)

SpecValidate == InitValidate /\ [][NextValidate]_vars

(***************************************************************************)
(* SpecFetch: FetchServersBy over lane maps and fetch outcomes             *)
(***************************************************************************)
InitFetch ==
  /\ umask = \o022
  /\ dir = NoDir
  /\ file = NoFile
  /\ config = NilConfig
  /\ prof \in {Profile("AKIAEXAMPLE", "wJalrEXAMPLEKEY", "", m, NilConfig, FALSE) : m \in LaneMaps}
  /\ lanesRegion = ""
  /\ ret = NoCall
  /\ out = <<>>
  /\ running = TRUE
  /\ written = FALSE

NextFetch == \E fetched \in FetchOutcomes : CallFetchServersBy(fetched)

SpecFetch == InitFetch /\ [][NextFetch]_vars

(***************************************************************************)
(* Properties                                                              *)
(***************************************************************************)
\* The value of a scalar key of YAML bytes ("" when the key is absent).
Scalar(in, k) == IF k \in DOMAIN in.scalars THEN in.scalars[k] ELSE ""

\* C1: Validate returns an error exactly when the access key id or the secret
\* access key is empty (ErrMissingAccessKey when the access key is empty,
\* otherwise ErrMissingSecretKey) and nil when both are set; LoadProfileBytes
\* returns an error for every parsed profile missing either credential.
C1_ValidateRejectsMissingCredentials ==
  /\ ret.op = "Validate" =>
       LET a == ret.this.AWSAccessKeyId
           k == ret.this.AWSSecretAccessKey
       IN /\ (ret.err # Nil) <=> (a = "" \/ k = "")
          /\ a = "" => ret.err = ErrMissingAccessKey
          /\ (a # "" /\ k = "") => ret.err = ErrMissingSecretKey
  /\ (ret.op = "LoadProfileBytes" /\ ret.in.syntax = "ok") =>
       ((Scalar(ret.in, "aws_access_key_id") = "" \/ Scalar(ret.in, "aws_secret_access_key") = "")
          => ret.err # Nil)

\* C1 witness: YAML with an access key and no secret key was loaded and rejected.
C1_Witness ==
  /\ ret.op = "LoadProfileBytes"
  /\ ret.in.syntax = "ok"
  /\ Scalar(ret.in, "aws_access_key_id") # ""
  /\ "aws_secret_access_key" \notin DOMAIN ret.in.scalars
  /\ ret.err = Wrap("invalid profile", ErrMissingSecretKey)

\* The region the order profile -> global config -> environment selects.
ResolvedRegion(this, env) ==
  IF this.Region # "" THEN this.Region
  ELSE IF ~this.global.isNil /\ this.global.Region # "" THEN this.global.Region
  ELSE env

\* C2: after a successful Validate the profile's Region is the one the order
\* profile -> global config -> LANES_REGION selects: a region set in the
\* profile is kept, else the global config's region is used, else the
\* environment variable.
C2_RegionResolutionOrder ==
  (ret.op = "Validate" /\ ret.err = Nil) => prof.Region = ResolvedRegion(ret.this, lanesRegion)

\* C3 as stated: on an existing path CheckPermissions is fatal whenever the
\* owner bits are not rwx.
C3_FatalUnlessOwnerRwx ==
  (ret.op = "CheckPermissions" /\ Entry(ret.path).kind # "none"
     /\ UserBits(Entry(ret.path).mode) # 7)
    => ret.fatal

\* C3 amended: on an existing path CheckPermissions is fatal exactly when the
\* owning user lacks read permission (owner bits 0..3), whatever the group and
\* world bits; owner bits r--, r-x, rw- and rwx are not fatal.
C3_FatalIffOwnerCannotRead ==
  (ret.op = "CheckPermissions" /\ Entry(ret.path).kind # "none")
    => (ret.fatal <=> ~OwnerCanRead(Entry(ret.path).mode))

\* C3 witness: a file the owner cannot read and the world can was checked: fatal.
C3_Witness ==
  /\ ret.op = "CheckPermissions"
  /\ ret.path = GetProfilePath(ProfileName)
  /\ file.kind = "file"
  /\ UserBits(file.mode) = 3
  /\ WorldBits(file.mode) # 0
  /\ ret.fatal

\* C4: group and world permissions are warning-level only. On an existing
\* path the result is non-nil whenever the group or world bits are non-zero;
\* the fatal flag is the same for every mode with the same owner bits; and
\* with owner bits the check accepts and no group or world bit the result is
\* nil and not fatal.
C4_GroupWorldWarnOnly ==
  (ret.op = "CheckPermissions" /\ Entry(ret.path).kind # "none") =>
    LET mode == Entry(ret.path).mode IN
    /\ (GroupBits(mode) # 0 \/ WorldBits(mode) # 0) => ret.result # Nil
    /\ GroupBits(mode) # 0 =>
         \E i \in DOMAIN ret.result : ret.result[i] = Err("is group-accessible", ret.path)[1]
    /\ WorldBits(mode) # 0 =>
         \E i \in DOMAIN ret.result : ret.result[i] = Err("is world-accessible", ret.path)[1]
    /\ \A m \in AllModes :
         UserBits(m) = UserBits(mode) => CheckMode(ret.path, m).fatal = ret.fatal
    /\ (OwnerCanRead(mode) /\ GroupBits(mode) = 0 /\ WorldBits(mode) = 0)
         => (ret.result = Nil /\ ~ret.fatal)

\* C4 witness: a file with rwx for the owner and world bits set was checked:
\* a finding, not fatal.
C4_Witness ==
  /\ ret.op = "CheckPermissions"
  /\ file.kind = "file"
  /\ ret.path = GetProfilePath(ProfileName)
  /\ UserBits(file.mode) = 7
  /\ GroupBits(file.mode) = 0
  /\ WorldBits(file.mode) # 0
  /\ ret.result # Nil
  /\ ~ret.fatal

\* C5: when the fetch succeeds FetchServersBy returns the fetched servers, same
\* elements in the same order, with a nil error, each tagged with the lane
\* map's entry for its Lane (nil when the lane has no entry, with one printed
\* warning per such server); when the fetch fails the error is returned and
\* no server is touched.
C5_FetchTagsServers ==
  ret.op = "FetchServersBy" =>
    IF ret.fetched.err = Nil
      THEN /\ ret.err = Nil
           /\ Len(ret.servers) = Len(ret.fetched.servers)
           /\ \A i \in DOMAIN ret.servers :
                /\ ret.servers[i].id = ret.fetched.servers[i].id
                /\ ret.servers[i].Lane = ret.fetched.servers[i].Lane
                /\ ret.servers[i].profile =
                     IF ret.servers[i].Lane \in DOMAIN prof.SSH.Mods
                       THEN prof.SSH.Mods[ret.servers[i].Lane]
                       ELSE NilSSH
           /\ Len(out) = Cardinality({i \in DOMAIN ret.fetched.servers :
                                        ret.fetched.servers[i].Lane \notin DOMAIN prof.SSH.Mods})
           /\ \A j \in DOMAIN out : out[j].lane \notin DOMAIN prof.SSH.Mods
      ELSE /\ ret.err = ret.fetched.err
           /\ ret.servers = ret.fetched.servers
           /\ out = <<>>

\* C5 witness: two servers were fetched, the first in a lane without an entry
\* and carrying a profile, the second in a lane with SSH settings.
C5_Witness ==
  /\ ret.op = "FetchServersBy"
  /\ ret.err = Nil
  /\ Len(ret.servers) = 2
  /\ ret.fetched.servers[1].Lane \notin DOMAIN prof.SSH.Mods
  /\ ~ret.fetched.servers[1].profile.isNil
  /\ ret.servers[1].profile = NilSSH
  /\ ret.servers[2].Lane \in DOMAIN prof.SSH.Mods
  /\ ~ret.servers[2].profile.isNil
  /\ Len(out) = 1

\* C6: after a successful Write the profile file has mode 0600 and the config
\* directory has mode 0700, whatever was on disk before.
C6_ModesAfterWrite ==
  (ret.op = "Write" /\ ret.err = Nil) => (file.mode = FilePerm /\ dir.mode = DirPerm)

\* C7: the message CheckProfilePermissions prints holds every problem found on
\* the directory and every problem found on the profile file, and a message is
\* printed whenever either check found a problem.
C7_AllProblemsPrinted ==
  ret.op = "CheckProfilePermissions" =>
    LET d == CheckPermissions(Dir(ret.path)).result
        p == CheckPermissions(ret.path).result
    IN /\ (d # Nil \/ p # Nil) => Len(out) = 1
       /\ Len(out) = 1 =>
            /\ \A i \in DOMAIN d : \E j \in DOMAIN out[1].errs : out[1].errs[j] = d[i]
            /\ \A i \in DOMAIN p : \E j \in DOMAIN out[1].errs : out[1].errs[j] = p[i]

\* C8: LoadProfile ends the process exactly when the check of the directory or
\* of the profile file is fatal, which includes a path that cannot be
\* stat'ed; the file is read and parsed only after a check that was not fatal,
\* and the "unable to read profile" error is returned only for a file that
\* passed the check.
C8_ExitExactlyOnFatal ==
  ret.op = "LoadProfile" =>
    LET path == GetProfilePath(ProfileName)
        fatal == CheckPermissions(Dir(path)).fatal \/ CheckPermissions(path).fatal
    IN /\ running <=> ~fatal
       /\ (Stat(path).err # Nil \/ Stat(Dir(path)).err # Nil) => ~running
       /\ ~running => (ret.trace = <<"check", "exit">> /\ ret.err = Nil /\ ~ret.hasProf)
       /\ running => (Len(ret.trace) >= 2 /\ ret.trace[2] = "read")
       /\ ret.trace[1] = "check"
       /\ \A i \in DOMAIN ret.trace : ret.trace[i] \in {"read", "parse"} => (i > 1 /\ ~fatal)
       /\ (ret.err # Nil /\ ret.err[1].msg = "unable to read profile") => (~fatal /\ running)

\* C8 witness: the directory is acceptable, the profile file is missing, and
\* LoadProfile ended the process without reading.
C8_Witness ==
  /\ ret.op = "LoadProfile"
  /\ dir.kind = "dir"
  /\ ~CheckPermissions(CONFIG_DIR).fatal
  /\ file.kind = "none"
  /\ ~running
  /\ ret.trace = <<"check", "exit">>

\* C9: WriteFile never overwrites an existing profile unless the overwrite flag
\* is set: with the destination present and the flag unset it returns the
\* "profile already exists" error and leaves file and directory as they were;
\* otherwise the write proceeds; SetOverwrite sets the flag to its argument, so
\* the latest value decides.
C9_NoOverwriteWithoutFlag ==
  [][/\ ret'.op = "SetOverwrite" => prof'.overwrite = ret'.value
     /\ ret'.op = "Write" =>
          IF file.kind # "none" /\ ~prof.overwrite
            THEN ret'.err = ErrExists(ProfileName) /\ file' = file /\ dir' = dir
            ELSE /\ ret'.err # ErrExists(ProfileName)
                 /\ ret'.err = Nil => (file'.kind = "file" /\ file'.data = WriteBytes(prof))]_vars

\* C9 witness: a Write was refused because the profile exists and the flag is unset.
C9_Witness ==
  /\ ret.op = "Write"
  /\ ret.err = ErrExists(ProfileName)
  /\ ~prof.overwrite
  /\ file.kind = "file"

\* C10: a profile file and config directory both newly created by a successful
\* Write, with modes 0600 and 0700, pass the permission check of a following
\* LoadProfile with no fatal finding and no warning, and a profile with both
\* credentials set is loaded back without error.
C10_WrittenProfileLoads ==
  (ret.op = "LoadProfile" /\ written /\ file.mode = FilePerm /\ dir.mode = DirPerm) =>
    /\ running
    /\ out = <<>>
    /\ ret.trace = <<"check", "read", "parse">>
    /\ (Scalar(file.data, "aws_access_key_id") # "" /\ Scalar(file.data, "aws_secret_access_key") # "")
         => (ret.err = Nil /\ ret.hasProf
             /\ ret.prof.AWSAccessKeyId = Scalar(file.data, "aws_access_key_id")
             /\ ret.prof.AWSSecretAccessKey = Scalar(file.data, "aws_secret_access_key"))

\* C10 witness: a freshly written profile with both credentials was loaded back.
C10_Witness ==
  /\ ret.op = "LoadProfile"
  /\ written
  /\ file.mode = FilePerm
  /\ dir.mode = DirPerm
  /\ ret.err = Nil
  /\ ret.prof.AWSAccessKeyId = "AKIAEXAMPLE"
  /\ ret.prof.AWSSecretAccessKey = "wJalrEXAMPLEKEY"

====
